---- MODULE Spec2Model ----
(***************************************************************************)
(* web-kubeauth: a Gin web application that lets an operator pick a        *)
(* kubeconfig context and then guards GET /home.                           *)
(*                                                                         *)
(* The repository holds two main programs:                                 *)
(*   "mtls"  src/cmd/main.go       POST /select-context builds a mutual-TLS*)
(*                                 client from the context's certificates  *)
(*                                 and probes the cluster server;          *)
(*   "rbac"  src/unnamed/part_000  POST /select-context stores the context's*)
(*                                 user in the session, GET /home lists    *)
(*                                 the ClusterRoleBindings and checks them *)
(*                                 against ACCESS_ROLE.                    *)
(* A behaviour runs one of the two (variable program).  A handler is one   *)
(* action up to each blocking network call; the call's return is the next  *)
(* action of the same request.                                             *)
(***************************************************************************)
EXTENDS Integers, Sequences, FiniteSets, TLC

VARIABLES
    program,          \* which main() is running: "mtls" or "rbac"
    phase,            \* "boot" (main() not yet at router.Run), "serving", "halted"
    document,         \* the file at ~/.kube/config
    accessRole,       \* the environment variable ACCESS_ROLE
    kubeConfigBytes,  \* main()'s kubeConfigBytes: Nil or the bytes read
    kubeConfig,       \* main()'s kubeConfig struct
    session,          \* per browser session: the key/value pairs of its cookie
    req,              \* per browser session: its request in flight, or its last one
    probed,           \* history: the session's cookie was written after a probe
                      \* of the cluster server that returned 200
    selected          \* history: the form value of the session's latest POST
                      \* /select-context that was answered with the redirect

vars == <<program, phase, document, accessRole, kubeConfigBytes, kubeConfig,
          session, req, probed, selected>>

(***************************************************************************)
(* Bounds and input sets                                                   *)
(***************************************************************************)
\* The longest list of ClusterRoleBindings the control-plane returns in
\* SpecAuthz.
MaxBindings == 2

Sessions == {"s1", "s2"}

\* net/http status codes used by the handlers.
StatusOK == 200
StatusFound == 302
StatusBadRequest == 400
StatusUnauthorized == 401
StatusForbidden == 403
StatusInternalServerError == 500

Nil == "nil"

(***************************************************************************)
(* Certificate material.  A base64 text is a sequence of quanta; a quantum *)
(* is a group of characters that decodes to one block of plaintext, or the *)
(* group "!" that holds a character outside the alphabet.  A plaintext     *)
(* buffer is a sequence of blocks; "00" is a block of zero bytes.          *)
(***************************************************************************)
ZeroBlock == "00"

\* base64.StdEncoding's decoding table, quantum by quantum.
decodeMap ==
    [q \in {"Q0VSVC1B", "Q0VSVC1C", "S0VZLUE=", "S0VZLUI=", "Q0VSVC1DQQ==", "anVuaw=="} |->
        CASE q = "Q0VSVC1B" -> "CERT-A"        \* PEM certificate of key pair A
          [] q = "Q0VSVC1C" -> "CERT-B"        \* PEM certificate of key pair B
          [] q = "S0VZLUE=" -> "KEY-A"         \* PEM private key of key pair A
          [] q = "S0VZLUI=" -> "KEY-B"         \* PEM private key of key pair B
          [] q = "Q0VSVC1DQQ==" -> "CERT-CA"   \* PEM certificate of the cluster CA
          [] q = "anVuaw==" -> "junk"]         \* bytes that are no PEM block

MinOf(S) == CHOOSE x \in S : \A y \in S : x <= y

\* base64.StdEncoding.DecodeString: the bytes decoded before the first corrupt
\* quantum, and whether there was one.
DecodeString(s) ==
    LET corrupt == {i \in 1..Len(s) : s[i] \notin DOMAIN decodeMap}
        n == IF corrupt = {} THEN Len(s) ELSE MinOf(corrupt) - 1
    IN  [bytes |-> [i \in 1..n |-> decodeMap[s[i]]], err |-> corrupt # {}]

IsCertificateBlock(b) == b \in {"CERT-A", "CERT-B", "CERT-CA"}
IsPrivateKeyBlock(b) == b \in {"KEY-A", "KEY-B"}
PublicKeyOf(b) ==
    CASE b = "CERT-A" -> "A" [] b = "KEY-A" -> "A"
      [] b = "CERT-B" -> "B" [] b = "KEY-B" -> "B"
      [] OTHER -> "CA"

\* tls.X509KeyPair(certPEMBlock, keyPEMBlock) returns no error: there is a
\* CERTIFICATE block, there is a PRIVATE KEY block, and the first key is the
\* key of the first certificate.
X509KeyPair(certPEMBlock, keyPEMBlock) ==
    LET certs == SelectSeq(certPEMBlock, IsCertificateBlock)
        keys == SelectSeq(keyPEMBlock, IsPrivateKeyBlock)
    IN  /\ Len(certs) > 0
        /\ Len(keys) > 0
        /\ PublicKeyOf(certs[1]) = PublicKeyOf(keys[1])

\* (*x509.CertPool).AppendCertsFromPEM: some certificate was parsed.
AppendCertsFromPEM(pemCerts) == Len(SelectSeq(pemCerts, IsCertificateBlock)) > 0

\* The loop that leaves the buffer as it is.
NotZeroed(buf) == buf

\* for i := range buf { buf[i] = 0 }
Zeroed(buf) == [i \in 1..Len(buf) |-> ZeroBlock]

IsZero(buf) == \A i \in 1..Len(buf) : buf[i] = ZeroBlock

(***************************************************************************)
(* The configuration document                                              *)
(***************************************************************************)
\* type KubeConfig, zero value.
EmptyKubeConfig == [contexts |-> <<>>, users |-> <<>>, clusters |-> <<>>]

\* "dev" names a cluster and "test" a user that the document does not hold;
\* "stage" names the second cluster and the second user.
TheContexts ==
    << [name |-> "prod", cluster |-> "c1", user |-> "alice"],
       [name |-> "dev", cluster |-> "c9", user |-> "alice"],
       [name |-> "test", cluster |-> "c1", user |-> "bob"],
       [name |-> "stage", cluster |-> "c2", user |-> "carol"] >>

CertFields == { <<"Q0VSVC1B">>, <<"Q0VSVC1B", "!">>, <<"!">> }
KeyFields == { <<"S0VZLUE=">>, <<"S0VZLUI=">>, <<"S0VZLUE=", "!">> }
CAFields == { <<"Q0VSVC1DQQ==">>, <<"Q0VSVC1DQQ==", "!">>, <<"anVuaw==">> }

ConfigWith(contexts, cert, key, ca) ==
    [contexts |-> contexts,
     users |-> << [name |-> "alice", clientCertificateData |-> cert,
                   clientKeyData |-> key],
                  [name |-> "carol", clientCertificateData |-> <<"Q0VSVC1C">>,
                   clientKeyData |-> <<"S0VZLUI=">>] >>,
     clusters |-> << [name |-> "c1", server |-> "https://c1:6443",
                      certificateAuthorityData |-> ca],
                     [name |-> "c2", server |-> "https://c2:6443",
                      certificateAuthorityData |-> <<"Q0VSVC1DQQ==">>] >>]

\* A file is absent (or unreadable), present but no YAML of the KubeConfig
\* shape, or present and well formed.
AbsentDocument == [present |-> FALSE, wellFormed |-> FALSE, config |-> EmptyKubeConfig]
MalformedDocument == [present |-> TRUE, wellFormed |-> FALSE, config |-> EmptyKubeConfig]
WellFormed(config) == [present |-> TRUE, wellFormed |-> TRUE, config |-> config]

\* The documents given to src/cmd/main.go, which reads the certificate fields.
MtlsDocuments ==
    {AbsentDocument, MalformedDocument}
    \cup {WellFormed(ConfigWith(<<>>, <<"Q0VSVC1B">>, <<"S0VZLUE=">>, <<"Q0VSVC1DQQ==">>))}
    \cup {WellFormed(ConfigWith(TheContexts, cert, key, ca)) :
            cert \in CertFields, key \in KeyFields, ca \in CAFields}

\* The documents given to part_000, whose handlers read the contexts only.
RbacDocuments ==
    {AbsentDocument, MalformedDocument}
    \cup {WellFormed(ConfigWith(ctxs, <<"Q0VSVC1B">>, <<"S0VZLUE=">>, <<"Q0VSVC1DQQ==">>)) :
            ctxs \in {<<>>, TheContexts}}

\* The value of the form field "context".
FormValues == {"prod", "dev", "test", "stage", "nope"}

\* ACCESS_ROLE is unset, or set to a role name.
UnsetEnv == [set |-> FALSE, value |-> ""]
SetEnv(v) == [set |-> TRUE, value |-> v]

\* os.Getenv: the value, or "" when the variable is not present.
Getenv(e) == IF e.set THEN e.value ELSE ""

(***************************************************************************)
(* Sessions and requests                                                   *)
(***************************************************************************)
\* A session is the set of key/value pairs in its cookie.
EmptySession == <<>>

\* session.Get(key) != nil
Has(sess, key) == key \in DOMAIN sess

\* session.Set(key, val)
Set(sess, key, val) ==
    [k \in DOMAIN sess \cup {key} |-> IF k = key THEN val ELSE sess[k]]

\* auth := session.Get("authenticated"); auth == true
Authenticated(sess) == Has(sess, "authenticated") /\ sess["authenticated"] = TRUE

\* The record of one request: where the handler stands (pc), what it has
\* built and called so far, and, once pc = "done", the response it wrote.
NoRequest ==
    [route |-> "none", pc |-> "done", selectedContext |-> "",
     status |-> 0, location |-> "", body |-> "",
     \* src/cmd/main.go, POST /select-context
     selectedCluster |-> "", userEntry |-> 0, clusterEntry |-> 0,
     clusterServer |-> "",
     clientCert |-> <<>>, clientKey |-> <<>>, caCert |-> <<>>,
     clientCertPair |-> FALSE, caCertPool |-> FALSE, tlsConfig |-> FALSE,
     gets |-> 0, probe |-> "none",
     \* the network call in flight is to a server that never answers
     silent |-> FALSE,
     \* session.Set calls made
     sets |-> 0,
     \* part_000, GET /home (selectedUser: POST /select-context too)
     selectedUser |-> "", crbs |-> <<>>, lists |-> 0, listFailed |-> "none",
     checked |-> FALSE, userAuthorized |-> FALSE]

Request(route) == [NoRequest EXCEPT !.route = route]

\* c.String(status, body), c.HTML(status, template, ...)
Respond(r, status, body) ==
    [r EXCEPT !.pc = "done", !.status = status, !.body = body]

\* c.Redirect(http.StatusFound, location)
Redirect(r, location) ==
    [r EXCEPT !.pc = "done", !.status = StatusFound, !.location = location]

\* The session has no request in flight.
Idle(s) == req[s].pc = "done"

\* The request r as it blocks in a network call.  Neither http.Client nor the
\* clientset is given a timeout or a deadline (http.Client{Transport: ...},
\* context.TODO()), so a call to a server that never answers never returns.
Blocked(r, silent) == IF r.pc = "done" THEN r ELSE [r EXCEPT !.silent = silent]

\* The network call the request is blocked in returns.
Returns(s, call) == req[s].pc = call /\ ~req[s].silent

(***************************************************************************)
(* main(): reading and parsing the configuration document                  *)
(***************************************************************************)
Init ==
    /\ program \in {"mtls", "rbac"}
    /\ phase = "boot"
    /\ document \in (IF program = "mtls" THEN MtlsDocuments ELSE RbacDocuments)
    /\ accessRole \in (IF program = "mtls" THEN {UnsetEnv}
                       ELSE {UnsetEnv, SetEnv("cluster-admin")})
    /\ kubeConfigBytes = Nil
    /\ kubeConfig = EmptyKubeConfig
    /\ session = [s \in Sessions |-> EmptySession]
    /\ req = [s \in Sessions |-> NoRequest]
    /\ probed = [s \in Sessions |-> FALSE]
    /\ selected = [s \in Sessions |-> Nil]

\* The parse with its error dropped.
ParseFailsNever(doc) == FALSE

\* yaml.Unmarshal(kubeConfigBytes, &kubeConfig) returns an error.
ParseFails(doc) == ~doc.wellFormed

\* main() from os.ReadFile to router.Run: a read error leaves kubeConfigBytes
\* nil, a parse error ends the process (log.Fatalf).
Main ==
    /\ phase = "boot"
    /\ IF ~document.present
       THEN /\ kubeConfigBytes' = Nil
            /\ kubeConfig' = EmptyKubeConfig
            /\ phase' = "serving"
       ELSE IF ParseFails(document)
       THEN /\ kubeConfigBytes' = "bytes"
            /\ kubeConfig' = EmptyKubeConfig
            /\ phase' = "halted"
       ELSE /\ kubeConfigBytes' = "bytes"
            /\ kubeConfig' = document.config
            /\ phase' = "serving"
    /\ UNCHANGED <<program, document, accessRole, session, req, probed, selected>>

\* kubeConfigBytes == nil || len(kubeConfig.Contexts) == 0
NoContexts == kubeConfigBytes = Nil \/ Len(kubeConfig.contexts) = 0

\* GET /
Index(s) ==
    /\ phase = "serving"
    /\ Idle(s)
    /\ req' = [req EXCEPT ![s] =
                 IF ~NoContexts
                 THEN Respond(Request("/"), StatusOK, "contexts.html")
                 ELSE Respond(Request("/"), StatusOK, "No kubeconfig found")]
    /\ UNCHANGED <<program, phase, document, accessRole, kubeConfigBytes,
                   kubeConfig, session, probed, selected>>

(***************************************************************************)
(* Looking a context up (both programs)                                    *)
(***************************************************************************)
\* The loop that stops at its first entry, whatever its name.
FirstEntry(seq, name) == IF Len(seq) = 0 THEN 0 ELSE 1

\* The index of the first entry of seq named name, 0 when there is none
\* (for ... range ... { if x.Name == name { ...; break } }).
FirstNamed(seq, name) ==
    LET hits == {i \in 1..Len(seq) : seq[i].name = name}
    IN  IF hits = {} THEN 0 ELSE MinOf(hits)

\* selectedUser, selectedCluster after the loop over kubeConfig.Contexts: the
\* zero value "" when no context has the name.
SelectedUser(selectedContext) ==
    LET i == FirstNamed(kubeConfig.contexts, selectedContext)
    IN  IF i = 0 THEN "" ELSE kubeConfig.contexts[i].user

SelectedCluster(selectedContext) ==
    LET i == FirstNamed(kubeConfig.contexts, selectedContext)
    IN  IF i = 0 THEN "" ELSE kubeConfig.contexts[i].cluster

(***************************************************************************)
(* src/cmd/main.go: POST /select-context                                   *)
(***************************************************************************)
\* clientCert, clientKey, caCert and clusterServer after the loops over
\* kubeConfig.Users and kubeConfig.Clusters; the decoding errors are dropped
\* (clientCert, _ = ...), a name that is not found leaves the nil slice.
Extracted(selectedUser, selectedCluster) ==
    LET u == FirstNamed(kubeConfig.users, selectedUser)
        c == FirstNamed(kubeConfig.clusters, selectedCluster)
    IN  [userEntry |-> u,
         clusterEntry |-> c,
         clientCert |-> IF u = 0 THEN <<>>
                        ELSE DecodeString(kubeConfig.users[u].clientCertificateData).bytes,
         clientKey |-> IF u = 0 THEN <<>>
                       ELSE DecodeString(kubeConfig.users[u].clientKeyData).bytes,
         caCert |-> IF c = 0 THEN <<>>
                    ELSE DecodeString(kubeConfig.clusters[c].certificateAuthorityData).bytes,
         clusterServer |-> IF c = 0 THEN "" ELSE kubeConfig.clusters[c].server]

\* The handler from its first line to client.Get(clusterServer), where it
\* blocks, or to the response of an early return.
SelectContextRequest(selectedContext) ==
    LET r == [Request("/select-context") EXCEPT !.selectedContext = selectedContext]
        x == Extracted(SelectedUser(selectedContext), SelectedCluster(selectedContext))
        decoded == [r EXCEPT !.selectedUser = SelectedUser(selectedContext),
                             !.selectedCluster = SelectedCluster(selectedContext),
                             !.userEntry = x.userEntry,
                             !.clusterEntry = x.clusterEntry,
                             !.clusterServer = x.clusterServer,
                             !.clientCert = x.clientCert,
                             !.clientKey = x.clientKey,
                             !.caCert = x.caCert]
        paired == [decoded EXCEPT !.clientCertPair = TRUE,
                                  !.clientCert = Zeroed(x.clientCert),
                                  !.clientKey = Zeroed(x.clientKey)]
        pooled == [paired EXCEPT !.caCertPool = TRUE,
                                 !.caCert = Zeroed(x.caCert)]
    IN  IF NoContexts
        THEN Respond(r, StatusBadRequest, "No kubeconfig file or contexts available to select.")
        ELSE IF ~X509KeyPair(x.clientCert, x.clientKey)
        THEN Respond(decoded, StatusInternalServerError, "Failed to load client key pair")
        ELSE IF ~AppendCertsFromPEM(x.caCert)
        THEN Respond(paired, StatusInternalServerError,
                     "Failed to append CA certificate to pool")
        ELSE [pooled EXCEPT !.tlsConfig = TRUE, !.pc = "probe", !.gets = 1]

MtlsSelectContext(s) ==
    /\ phase = "serving"
    /\ program = "mtls"
    /\ Idle(s)
    /\ \E selectedContext \in FormValues, silent \in BOOLEAN :
          req' = [req EXCEPT ![s] = Blocked(SelectContextRequest(selectedContext), silent)]
    /\ UNCHANGED <<program, phase, document, accessRole, kubeConfigBytes,
                   kubeConfig, session, probed, selected>>

\* What client.Get returns: a transport error, or a response with a status.
ProbeOutcomes ==
    {[err |-> TRUE, code |-> 0]}
    \cup {[err |-> FALSE, code |-> c] :
            c \in {StatusOK, StatusForbidden, StatusInternalServerError}}

\* The condition without its test of the status.
ProbeFailedOnErrorOnly(outcome) == outcome.err

\* err != nil || resp.StatusCode != http.StatusOK
ProbeFailed(outcome) == outcome.err \/ outcome.code # StatusOK

\* client.Get returns: 401 on a failed probe; otherwise the session is marked
\* authenticated, saved, and the browser is sent to /home.
MtlsProbeReturn(s) ==
    /\ phase = "serving"
    /\ program = "mtls"
    /\ Returns(s, "probe")
    /\ \E outcome \in ProbeOutcomes :
          LET r == [req[s] EXCEPT !.probe = IF outcome.err THEN "error"
                                            ELSE ToString(outcome.code)]
          IN  IF ProbeFailed(outcome)
              THEN /\ req' = [req EXCEPT ![s] =
                                Respond(r, StatusUnauthorized, "Authentication failed")]
                   /\ UNCHANGED <<session, probed, selected>>
              ELSE /\ session' = [session EXCEPT ![s] = Set(@, "authenticated", TRUE)]
                   /\ req' = [req EXCEPT ![s] = Redirect([r EXCEPT !.sets = 1], "/home")]
                   /\ probed' = [probed EXCEPT ![s] = TRUE]
                   /\ selected' = [selected EXCEPT ![s] = r.selectedContext]
    /\ UNCHANGED <<program, phase, document, accessRole, kubeConfigBytes, kubeConfig>>

\* src/cmd/main.go: GET /home
MtlsHome(s) ==
    /\ phase = "serving"
    /\ program = "mtls"
    /\ Idle(s)
    /\ req' = [req EXCEPT ![s] =
                 IF ~Authenticated(session[s])
                 THEN Redirect(Request("/home"), "/")
                 ELSE Respond(Request("/home"), StatusOK, "home.html")]
    /\ UNCHANGED <<program, phase, document, accessRole, kubeConfigBytes,
                   kubeConfig, session, probed, selected>>

(***************************************************************************)
(* part_000: POST /select-context                                          *)
(***************************************************************************)
\* The handler stores the context's user and cluster in the session without
\* any probe.  session.Save() may fail; then the cookie is not rewritten.
RbacSelectContext(s) ==
    /\ phase = "serving"
    /\ program = "rbac"
    /\ Idle(s)
    /\ \E selectedContext \in FormValues, saved \in BOOLEAN :
          LET r == [Request("/select-context") EXCEPT !.selectedContext = selectedContext]
              set == [r EXCEPT !.selectedUser = SelectedUser(selectedContext),
                               !.selectedCluster = SelectedCluster(selectedContext),
                               !.sets = 3]
          IN  IF NoContexts
              THEN /\ req' = [req EXCEPT ![s] =
                        Respond(r, StatusBadRequest,
                                "No kubeconfig file or contexts available to select.")]
                   /\ UNCHANGED <<session, selected>>
              ELSE IF ~saved
              THEN /\ req' = [req EXCEPT ![s] =
                        Respond(set, StatusInternalServerError, "Failed to save session")]
                   /\ UNCHANGED <<session, selected>>
              ELSE /\ session' = [session EXCEPT ![s] =
                        Set(Set(Set(@, "authenticated", TRUE),
                                "user", SelectedUser(selectedContext)),
                            "cluster", SelectedCluster(selectedContext))]
                   /\ req' = [req EXCEPT ![s] = Redirect(set, "/home")]
                   /\ selected' = [selected EXCEPT ![s] = selectedContext]
    /\ UNCHANGED <<program, phase, document, accessRole, kubeConfigBytes,
                   kubeConfig, probed>>

(***************************************************************************)
(* part_000: GET /home                                                     *)
(***************************************************************************)
User(name) == [kind |-> "User", name |-> name]
Group(name) == [kind |-> "Group", name |-> name]
Binding(roleRef, subjects) == [roleRef |-> roleRef, subjects |-> subjects]

\* The condition without its test of the kind.
SubjectMatchesAnyKind(subject, crb, selectedUser, requiredRoleBinding) ==
    /\ subject.name = selectedUser
    /\ crb.roleRef = requiredRoleBinding

\* subject.Kind == "User" && subject.Name == selectedUser &&
\* crb.RoleRef.Name == requiredRoleBinding
SubjectMatches(subject, crb, selectedUser, requiredRoleBinding) ==
    /\ subject.kind = "User"
    /\ subject.name = selectedUser
    /\ crb.roleRef = requiredRoleBinding

\* for _, subject := range crb.Subjects { if ... { userAuthorized = true; break } }
\* from subject j on: the value of userAuthorized after the loop.
RECURSIVE SubjectsFrom(_, _, _, _)
SubjectsFrom(crb, j, selectedUser, requiredRoleBinding) ==
    IF j > Len(crb.subjects)
    THEN FALSE
    ELSE IF SubjectMatches(crb.subjects[j], crb, selectedUser, requiredRoleBinding)
    THEN TRUE
    ELSE SubjectsFrom(crb, j + 1, selectedUser, requiredRoleBinding)

\* The loop with its break moved out of the if: only the first subject counts.
InnerLoopFirstSubjectOnly(crb, selectedUser, requiredRoleBinding) ==
    /\ Len(crb.subjects) > 0
    /\ SubjectMatches(crb.subjects[1], crb, selectedUser, requiredRoleBinding)

InnerLoop(crb, selectedUser, requiredRoleBinding) ==
    SubjectsFrom(crb, 1, selectedUser, requiredRoleBinding)

\* for _, crb := range crbs.Items { <inner loop>; if userAuthorized { break } }
\* from binding i on.
RECURSIVE BindingsFrom(_, _, _, _)
BindingsFrom(crbs, i, selectedUser, requiredRoleBinding) ==
    IF i > Len(crbs)
    THEN FALSE
    ELSE IF InnerLoop(crbs[i], selectedUser, requiredRoleBinding)
    THEN TRUE
    ELSE BindingsFrom(crbs, i + 1, selectedUser, requiredRoleBinding)

\* The check that grants without looking at the bindings.
UserAuthorizedUnchecked(crbs, selectedUser, requiredRoleBinding) == TRUE

\* userAuthorized after both loops.
UserAuthorized(crbs, selectedUser, requiredRoleBinding) ==
    BindingsFrom(crbs, 1, selectedUser, requiredRoleBinding)

\* What building the clientset from kubeConfigBytes may end in (client-go).
ClientErrors == {"none", "client config", "REST config", "clientset"}

\* A user name kept in one variable of main() for all requests: the name
\* another session stored, when there is one.
SharedUser(s) ==
    LET others == {t \in Sessions \ {s} : Has(session[t], "user")}
    IN  IF others = {} THEN session[s]["user"]
        ELSE session[CHOOSE t \in others : TRUE]["user"]

\* selectedUser := session.Get("user").(string)
SessionUser(s) == session[s]["user"]

\* The handler from its first line to the ClusterRoleBindings List call, where
\* it blocks, or to the response of an early return.  The type assertion
\* session.Get("user").(string) panics on a session without "user"; gin's
\* Recovery middleware answers 500.
RbacHome(s) ==
    /\ phase = "serving"
    /\ program = "rbac"
    /\ Idle(s)
    /\ \E clientErr \in ClientErrors, silent \in BOOLEAN :
          LET r == Request("/home")
          IN  req' = [req EXCEPT ![s] = Blocked(
                 IF ~Authenticated(session[s])
                 THEN Redirect(r, "/")
                 ELSE IF ~Has(session[s], "user")
                 THEN Respond(r, StatusInternalServerError, "panic")
                 ELSE LET u == [r EXCEPT !.selectedUser = SessionUser(s)]
                      IN  IF clientErr # "none"
                          THEN Respond(u, StatusInternalServerError,
                                       "Failed to create Kubernetes " \o clientErr)
                          ELSE [u EXCEPT !.pc = "listCRB", !.lists = 1], silent)]
    /\ UNCHANGED <<program, phase, document, accessRole, kubeConfigBytes,
                   kubeConfig, session, probed, selected>>

\* The List call with its error dropped.
ListFailedNever(outcome) == FALSE

\* err != nil after a List call
ListFailed(outcome) == outcome.err

\* The request after a List call returned: which call failed, if one did.
Called(r, list, outcome) ==
    [r EXCEPT !.listFailed = IF outcome.err THEN list ELSE @]

\* The ClusterRoleBindings List call returns, with an error or with one of
\* the lists in items: 500 on an error; else the check, 403 when it denies,
\* and the RoleBindings List call when it grants.
ListCRBReturn(s, items) ==
    /\ phase = "serving"
    /\ program = "rbac"
    /\ Returns(s, "listCRB")
    /\ \E outcome \in {[err |-> TRUE, items |-> <<>>]}
                      \cup {[err |-> FALSE, items |-> l] : l \in items},
          silent \in BOOLEAN :
          req' = [req EXCEPT ![s] = Blocked(
             IF ListFailed(outcome)
             THEN Respond(Called(@, "ClusterRoleBindings", outcome),
                          StatusInternalServerError, "Failed to list ClusterRoleBindings")
             ELSE LET userAuthorized ==
                          UserAuthorized(outcome.items, @.selectedUser, Getenv(accessRole))
                      r == [Called(@, "ClusterRoleBindings", outcome)
                              EXCEPT !.crbs = outcome.items,
                                     !.checked = TRUE,
                                     !.userAuthorized = userAuthorized]
                  IN  IF ~userAuthorized
                      THEN Respond(r, StatusForbidden, "Access denied")
                      ELSE [r EXCEPT !.pc = "listRB", !.lists = 2], silent)]
    /\ UNCHANGED <<program, phase, document, accessRole, kubeConfigBytes,
                   kubeConfig, session, probed, selected>>

\* The RoleBindings List call returns: 500 on an error, else the page with
\* both lists.
ListRBReturn(s) ==
    /\ phase = "serving"
    /\ program = "rbac"
    /\ Returns(s, "listRB")
    /\ \E outcome \in {[err |-> TRUE], [err |-> FALSE]} :
          req' = [req EXCEPT ![s] =
             IF ListFailed(outcome)
             THEN Respond(Called(@, "RoleBindings", outcome),
                          StatusInternalServerError, "Failed to list RoleBindings")
             ELSE Respond(Called(@, "RoleBindings", outcome),
                          StatusOK, "home.html with the binding lists")]
    /\ UNCHANGED <<program, phase, document, accessRole, kubeConfigBytes,
                   kubeConfig, session, probed, selected>>

(***************************************************************************)
(* What the control-plane returns                                          *)
(***************************************************************************)
Subjects == {User("alice"), User("bob"), Group("alice")}
RoleRefs == {"cluster-admin", ""}

\* The lists the control-plane answers with in Spec.
RemoteBindingLists ==
    { <<>>,
      << Binding("cluster-admin", <<User("alice")>>) >>,
      << Binding("cluster-admin", <<Group("alice"), User("bob")>>) >>,
      << Binding("", <<User("alice")>>) >>,
      << Binding("", <<User("bob")>>), Binding("cluster-admin", <<User("bob"), User("alice")>>) >> }

\* Every list of up to MaxBindings bindings with up to two subjects each.
SubjectLists ==
    {<<>>} \cup {<<a>> : a \in Subjects} \cup {<<a, b>> : a \in Subjects, b \in Subjects}

Bindings == {Binding(role, subjects) : role \in RoleRefs, subjects \in SubjectLists}

BoundedBindingLists == UNION {[1..n -> Bindings] : n \in 0..MaxBindings}

(***************************************************************************)
(* Specifications                                                          *)
(***************************************************************************)
Next ==
    \/ Main
    \/ \E s \in Sessions : Index(s)
    \/ \E s \in Sessions : MtlsSelectContext(s)
    \/ \E s \in Sessions : MtlsProbeReturn(s)
    \/ \E s \in Sessions : MtlsHome(s)
    \/ \E s \in Sessions : RbacSelectContext(s)
    \/ \E s \in Sessions : RbacHome(s)
    \/ \E s \in Sessions : ListCRBReturn(s, RemoteBindingLists)
    \/ \E s \in Sessions : ListRBReturn(s)

Spec == Init /\ [][Next]_vars

\* Spec with the scheduling the runtime gives: main() runs on, and a network
\* call whose server answers does return to its handler.  Nothing makes a
\* browser send a request.
FairSpec ==
    /\ Spec
    /\ WF_vars(Main)
    /\ \A s \in Sessions :
          /\ WF_vars(MtlsProbeReturn(s))
          /\ WF_vars(ListCRBReturn(s, RemoteBindingLists))
          /\ WF_vars(ListRBReturn(s))

(***************************************************************************)
(* SpecAuthz: the authorization check of GET /home over every bounded list *)
(* of bindings.  It starts where part_000 waits for the ClusterRoleBindings*)
(* List call of session "s1", which selected context "prod" (user alice) or *)
(* "test" (user bob).                                                      *)
(***************************************************************************)
InitAuthz ==
    /\ program = "rbac"
    /\ phase = "serving"
    /\ document = WellFormed(ConfigWith(TheContexts, <<"Q0VSVC1B">>, <<"S0VZLUE=">>,
                                        <<"Q0VSVC1DQQ==">>))
    /\ accessRole \in {UnsetEnv, SetEnv("cluster-admin")}
    /\ kubeConfigBytes = "bytes"
    /\ kubeConfig = document.config
    /\ \E selectedContext \in {"prod", "test"} :
          /\ selected = [s \in Sessions |-> IF s = "s1" THEN selectedContext ELSE Nil]
          /\ session = [s \in Sessions |->
                IF s = "s1"
                THEN Set(Set(Set(EmptySession, "authenticated", TRUE),
                             "user", SelectedUser(selectedContext)),
                         "cluster", SelectedCluster(selectedContext))
                ELSE EmptySession]
          /\ req = [s \in Sessions |->
                IF s = "s1"
                THEN [Request("/home") EXCEPT !.selectedUser = SelectedUser(selectedContext),
                                              !.pc = "listCRB", !.lists = 1]
                ELSE NoRequest]
    /\ probed = [s \in Sessions |-> FALSE]

NextAuthz ==
    \/ \E s \in Sessions : ListCRBReturn(s, BoundedBindingLists)
    \/ \E s \in Sessions : ListRBReturn(s)

SpecAuthz == InitAuthz /\ [][NextAuthz]_vars

(***************************************************************************)
(* Claims                                                                  *)
(***************************************************************************)
\* The requests of GET /home whose authorization check has been evaluated.
Checked(s) == req[s].route = "/home" /\ req[s].checked

\* Some binding names the role and holds the user as a subject of kind "User".
SomeBindingGrants(crbs, name, role) ==
    \E i \in 1..Len(crbs) :
        /\ crbs[i].roleRef = role
        /\ \E j \in 1..Len(crbs[i].subjects) :
              /\ crbs[i].subjects[j].kind = "User"
              /\ crbs[i].subjects[j].name = name

\* C1: for every identity name, required role and list of bindings, the check
\* of GET /home sets userAuthorized exactly when some binding has the required
\* role as its roleRef and a subject of kind "User" named as the identity; a
\* denied request is answered 403 and a granted one is not.
C1_AuthorizedIffSomeBindingGrants ==
    \A s \in Sessions :
        Checked(s) =>
            /\ req[s].userAuthorized
                 <=> SomeBindingGrants(req[s].crbs, req[s].selectedUser, Getenv(accessRole))
            /\ req[s].userAuthorized <=> req[s].status # StatusForbidden

\* C1 witness: a check that grants on the second subject of the second binding
\* after a first binding that does not grant.
C1_Witness ==
    \E s \in Sessions :
        /\ Checked(s)
        /\ req[s].userAuthorized
        /\ Len(req[s].crbs) = 2
        /\ ~SomeBindingGrants(<<req[s].crbs[1]>>, req[s].selectedUser, Getenv(accessRole))
        /\ Len(req[s].crbs[2].subjects) = 2
        /\ req[s].crbs[2].subjects[1] # User(req[s].selectedUser)

Permuted(seq, p) == [i \in 1..Len(seq) |-> seq[p[i]]]

\* The lists that hold the bindings of crbs in some order (p), each with its
\* subjects in some order (q[i]).
Reorderings(crbs) ==
    LET n == Len(crbs)
        orders == UNION {Permutations(1..Len(crbs[i].subjects)) : i \in 1..n}
    IN  UNION {
            {[i \in 1..n |-> [crbs[p[i]] EXCEPT !.subjects = Permuted(@, q[i])]] :
                q \in {f \in [1..n -> orders] :
                          \A i \in 1..n : Len(f[i]) = Len(crbs[p[i]].subjects)}} :
            p \in Permutations(1..n)}

\* A scan of every subject of every binding, without early exit: the number
\* of matches is not zero.
FullScan(crbs, name, role) ==
    Cardinality(UNION {
        {<<i, j>> : j \in {k \in 1..Len(crbs[i].subjects) :
                              /\ crbs[i].subjects[k].kind = "User"
                              /\ crbs[i].subjects[k].name = name
                              /\ crbs[i].roleRef = role}} :
        i \in 1..Len(crbs)}) > 0

\* C10: the decision does not depend on the order of iteration: the loops
\* with their breaks give, on every reordering of the bindings and of each
\* binding's subjects, the decision the request got, which is also the result
\* of a scan without early exit.
C10_DecisionIndependentOfOrder ==
    \A s \in Sessions :
        Checked(s) =>
            /\ \A l \in Reorderings(req[s].crbs) :
                  UserAuthorized(l, req[s].selectedUser, Getenv(accessRole))
                      = req[s].userAuthorized
            /\ FullScan(req[s].crbs, req[s].selectedUser, Getenv(accessRole))
                      = req[s].userAuthorized

\* C10 witness: a granted check whose list has a reordering that starts with
\* a binding that does not grant and whose granting binding has a first
\* subject that does not match.
C10_Witness ==
    \E s \in Sessions :
        /\ Checked(s)
        /\ req[s].userAuthorized
        /\ Len(req[s].crbs) = 2
        /\ InnerLoop(req[s].crbs[1], req[s].selectedUser, Getenv(accessRole))
        /\ ~InnerLoop(req[s].crbs[2], req[s].selectedUser, Getenv(accessRole))
        /\ Len(req[s].crbs[1].subjects) = 2
        /\ req[s].crbs[1].subjects[2] # User(req[s].selectedUser)
        /\ Cardinality(Reorderings(req[s].crbs)) > 2

\* C2: a session carries the authenticated marker only if an earlier POST
\* /select-context of that session completed a probe of the cluster server
\* that succeeded.
C2_MarkerOnlyAfterSuccessfulProbe ==
    \A s \in Sessions : Authenticated(session[s]) => probed[s]

\* The requests of POST /select-context in src/cmd/main.go.
MtlsSelect(s) == program = "mtls" /\ req[s].route = "/select-context"

\* The request has left the credential-building step: it has returned, or it
\* waits for the probe.
PastBuild(s) == req[s].pc = "done" \/ req[s].pc = "probe"

\* C3: on every exit of the credential-building step (success, key-pair
\* failure, CA-pool failure) the three decoded buffers hold zero bytes only.
C3_BuffersZeroedOnEveryExit ==
    \A s \in Sessions :
        MtlsSelect(s) /\ PastBuild(s) =>
            /\ IsZero(req[s].clientCert)
            /\ IsZero(req[s].clientKey)
            /\ IsZero(req[s].caCert)

\* The context name, the cluster it refers to and the user it refers to are
\* all in their collections.
Resolves(selectedContext) ==
    LET i == FirstNamed(kubeConfig.contexts, selectedContext)
    IN  /\ i # 0
        /\ FirstNamed(kubeConfig.users, kubeConfig.contexts[i].user) # 0
        /\ FirstNamed(kubeConfig.clusters, kubeConfig.contexts[i].cluster) # 0

\* C4: a POST /select-context whose context name, referenced cluster or
\* referenced user is not in its collection is answered 400, issues no probe
\* and makes no change to the session.
C4_UnresolvedContextIsBadRequest ==
    \A s \in Sessions :
        req[s].route = "/select-context" /\ ~Resolves(req[s].selectedContext) =>
            /\ req[s].pc = "done"
            /\ req[s].status = StatusBadRequest
            /\ req[s].gets = 0
            /\ req[s].sets = 0

\* The probe of the request came back and was no 200.
ProbeCameBackFailed(s) == req[s].probe \notin {"none", ToString(StatusOK)}

SomeFieldUndecodable(selectedContext) ==
    LET i == FirstNamed(kubeConfig.contexts, selectedContext)
        u == FirstNamed(kubeConfig.users, kubeConfig.contexts[i].user)
        c == FirstNamed(kubeConfig.clusters, kubeConfig.contexts[i].cluster)
    IN  /\ Resolves(selectedContext)
        /\ \/ DecodeString(kubeConfig.users[u].clientCertificateData).err
           \/ DecodeString(kubeConfig.users[u].clientKeyData).err
           \/ DecodeString(kubeConfig.clusters[c].certificateAuthorityData).err

\* C6: when one of the three fields is no valid base64 the flow is answered
\* 500 and has built no key pair, no CA pool and no TLS configuration, and
\* has issued no request with them.
C6_UndecodableFieldBuildsNothing ==
    \A s \in Sessions :
        MtlsSelect(s) /\ SomeFieldUndecodable(req[s].selectedContext) =>
            /\ req[s].pc = "done"
            /\ req[s].status = StatusInternalServerError
            /\ ~req[s].clientCertPair
            /\ ~req[s].caCertPool
            /\ ~req[s].tlsConfig
            /\ req[s].gets = 0

\* C7: with ACCESS_ROLE unset every check of GET /home denies: the request
\* is answered 403 and never with the binding lists.
C7_UnsetRoleAlwaysDenied ==
    \A s \in Sessions :
        program = "rbac" /\ ~accessRole.set /\ req[s].route = "/home" =>
            /\ req[s].body # "home.html with the binding lists"
            /\ req[s].checked =>
                  ~req[s].userAuthorized /\ req[s].status = StatusForbidden

\* C8: with the document absent or unreadable main() reaches router.Run,
\* every POST /select-context is answered 400 with no session.Set, no probe
\* and the sessions as they were, and GET / gives the no-kubeconfig text; with
\* a document that does not parse main() ends and no request is served.
C8_AbsentDocumentDegradesMalformedHalts ==
    /\ ~document.present =>
          /\ phase # "halted"
          /\ \A s \in Sessions :
                /\ session[s] = EmptySession
                /\ req[s].route = "/select-context" =>
                      /\ req[s].pc = "done"
                      /\ req[s].status = StatusBadRequest
                      /\ req[s].sets = 0
                      /\ req[s].gets = 0
                /\ req[s].route = "/" =>
                      req[s].status = StatusOK /\ req[s].body = "No kubeconfig found"
    /\ document.present /\ ~document.wellFormed =>
          /\ phase # "serving"
          /\ \A s \in Sessions : req[s] = NoRequest /\ session[s] = EmptySession

\* C8 witness: the process serves without a document, one session was
\* answered 400 on POST /select-context and the other got the no-kubeconfig
\* text on GET /.
C8_Witness ==
    /\ ~document.present
    /\ phase = "serving"
    /\ \E s, t \in Sessions :
          /\ req[s].route = "/select-context"
          /\ req[s].status = StatusBadRequest
          /\ req[t].route = "/"
          /\ req[t].body = "No kubeconfig found"

\* C9: when a List call of GET /home fails the request is answered 500,
\* never 403 and never with the binding lists; when it is the list of
\* ClusterRoleBindings that fails, the check is not evaluated.
C9_FailedListIsInternalError ==
    \A s \in Sessions :
        req[s].route = "/home" /\ req[s].listFailed # "none" =>
            /\ req[s].pc = "done"
            /\ req[s].status = StatusInternalServerError
            /\ req[s].body # "home.html with the binding lists"
            /\ req[s].listFailed = "ClusterRoleBindings" =>
                  ~req[s].checked /\ ~req[s].userAuthorized /\ req[s].crbs = <<>>

\* C9 witness: a GET /home of an authenticated session whose list of
\* ClusterRoleBindings failed.
C9_Witness ==
    \E s \in Sessions :
        /\ req[s].route = "/home"
        /\ Authenticated(session[s])
        /\ req[s].listFailed = "ClusterRoleBindings"
        /\ req[s].status = StatusInternalServerError

\* C11: every flow that blocks in a network call eventually returns a result
\* to its caller, also when the server never answers.
C11_EveryFlowReturns ==
    \A s \in Sessions : (req[s].pc # "done") ~> (req[s].pc = "done")

\* The indices of the entries of seq named name.
Named(seq, name) == {i \in 1..Len(seq) : seq[i].name = name}

\* The buffer holds the bytes that text decodes to, as decoded or zeroed since.
DecodedFrom(buf, text) ==
    buf = DecodeString(text).bytes \/ buf = Zeroed(DecodeString(text).bytes)

\* C12: for a context name that is in the contexts collection, POST
\* /select-context resolves the user entry and the cluster entry named by
\* the context's user and cluster references: the certificate and the key are
\* decoded from that user entry, the CA data and the server URL are taken
\* from that cluster entry, and nothing is taken where no entry has the name.
C12_ResolvesTheReferencedEntries ==
    \A s \in Sessions :
        \A i \in Named(kubeConfig.contexts, req[s].selectedContext) :
            MtlsSelect(s) /\ ~NoContexts =>
                LET users == Named(kubeConfig.users, kubeConfig.contexts[i].user)
                    clusters == Named(kubeConfig.clusters, kubeConfig.contexts[i].cluster)
                    u == req[s].userEntry
                    c == req[s].clusterEntry
                IN  /\ req[s].selectedUser = kubeConfig.contexts[i].user
                    /\ req[s].selectedCluster = kubeConfig.contexts[i].cluster
                    /\ IF users = {}
                       THEN u = 0 /\ req[s].clientCert = <<>> /\ req[s].clientKey = <<>>
                       ELSE /\ u \in users
                            /\ DecodedFrom(req[s].clientCert,
                                           kubeConfig.users[u].clientCertificateData)
                            /\ DecodedFrom(req[s].clientKey,
                                           kubeConfig.users[u].clientKeyData)
                    /\ IF clusters = {}
                       THEN c = 0 /\ req[s].caCert = <<>> /\ req[s].clusterServer = ""
                       ELSE /\ c \in clusters
                            /\ DecodedFrom(req[s].caCert,
                                           kubeConfig.clusters[c].certificateAuthorityData)
                            /\ req[s].clusterServer = kubeConfig.clusters[c].server

\* C12 witness: a flow that resolved the second user and the second cluster
\* of the document and went on to the probe of that cluster's server.
C12_Witness ==
    \E s \in Sessions :
        /\ MtlsSelect(s)
        /\ req[s].selectedContext = "stage"
        /\ req[s].userEntry = 2
        /\ req[s].clusterEntry = 2
        /\ req[s].clusterServer = "https://c2:6443"
        /\ req[s].gets = 1

\* C13: in every POST /select-context that has issued its request to the
\* server, the client certificate, client key and CA certificate buffers hold
\* zero bytes only, from the moment the request is issued: while the handler
\* waits, when the server never answers, and after any outcome of the probe.
C13_BuffersZeroedBeforeTheProbe ==
    \A s \in Sessions :
        MtlsSelect(s) /\ req[s].gets > 0 =>
            /\ Len(req[s].clientCert) > 0 /\ IsZero(req[s].clientCert)
            /\ Len(req[s].clientKey) > 0 /\ IsZero(req[s].clientKey)
            /\ Len(req[s].caCert) > 0 /\ IsZero(req[s].caCert)

\* C13 witness: one flow waits for a server that never answers and another
\* has its probe back, failed; both have their three buffers zeroed.
C13_Witness ==
    \E s, t \in Sessions :
        /\ MtlsSelect(s) /\ req[s].pc = "probe" /\ req[s].silent
        /\ IsZero(req[s].clientCert) /\ IsZero(req[s].clientKey) /\ IsZero(req[s].caCert)
        /\ MtlsSelect(t) /\ req[t].probe = "error"
        /\ IsZero(req[t].clientCert) /\ IsZero(req[t].clientKey) /\ IsZero(req[t].caCert)

\* The requests of GET /home in part_000.
RbacHomeRequest(s) == program = "rbac" /\ req[s].route = "/home"

Payload == "home.html with the binding lists"

\* C14: GET /home gives the binding lists only to a session that carries the
\* authenticated marker and whose check, made for this request, found a
\* granting binding; without the marker it redirects to / and makes no query;
\* with the marker and a check that denies it answers 403 and has made the
\* ClusterRoleBindings query only.
C14_PayloadOnlyWhenMarkedAndAuthorized ==
    \A s \in Sessions :
        RbacHomeRequest(s) =>
            /\ req[s].body = Payload =>
                  /\ req[s].status = StatusOK
                  /\ "authenticated" \in DOMAIN session[s]
                  /\ session[s]["authenticated"] = TRUE
                  /\ req[s].checked
                  /\ SomeBindingGrants(req[s].crbs, req[s].selectedUser, Getenv(accessRole))
                  /\ req[s].lists = 2
            /\ "authenticated" \notin DOMAIN session[s] =>
                  /\ req[s].pc = "done"
                  /\ req[s].status = StatusFound
                  /\ req[s].location = "/"
                  /\ req[s].lists = 0
            /\ /\ req[s].checked
               /\ ~SomeBindingGrants(req[s].crbs, req[s].selectedUser, Getenv(accessRole))
               => /\ req[s].pc = "done"
                  /\ req[s].status = StatusForbidden
                  /\ req[s].lists = 1

\* C14 witness: one session without the marker was redirected to /, another
\* with the marker was denied with 403 after one query.
C14_Witness ==
    \E s, t \in Sessions :
        /\ RbacHomeRequest(s)
        /\ ~Authenticated(session[s])
        /\ req[s].location = "/"
        /\ RbacHomeRequest(t)
        /\ Authenticated(session[t])
        /\ req[t].status = StatusForbidden
        /\ req[t].lists = 1

\* C15: every session whose authenticated marker is true holds a user name,
\* and no GET /home ends in the failure of the extraction of that name.
C15_MarkedSessionHoldsUser ==
    \A s \in Sessions :
        /\ Authenticated(session[s]) => Has(session[s], "user")
        /\ req[s].route = "/home" => req[s].body # "panic"

(***************************************************************************)
(* C16.  One session's flow run alone: what a request of a session may     *)
(* become in one step, from the request and the cookie of that session and *)
(* the configuration loaded at startup, with no other session at all.      *)
(***************************************************************************)
\* A new request of a session with cookie sess, up to its first network call
\* or its response; forms is the set of form values the request may carry.
AloneArrival(sess, forms) ==
    LET marked == "authenticated" \in DOMAIN sess /\ sess["authenticated"] = TRUE
        home == Request("/home")
        index == IF kubeConfigBytes # Nil /\ Len(kubeConfig.contexts) > 0
                 THEN Respond(Request("/"), StatusOK, "contexts.html")
                 ELSE Respond(Request("/"), StatusOK, "No kubeconfig found")
        mtlsSelect ==
            {<<Blocked(SelectContextRequest(c), b), sess>> :
                c \in forms, b \in BOOLEAN}
        mtlsHome ==
            IF marked THEN Respond(home, StatusOK, "home.html") ELSE Redirect(home, "/")
        rbacSelect(c, saved) ==
            LET r == [Request("/select-context") EXCEPT !.selectedContext = c]
                set == [r EXCEPT !.selectedUser = SelectedUser(c),
                                 !.selectedCluster = SelectedCluster(c),
                                 !.sets = 3]
            IN  IF kubeConfigBytes = Nil \/ Len(kubeConfig.contexts) = 0
                THEN <<Respond(r, StatusBadRequest,
                               "No kubeconfig file or contexts available to select."), sess>>
                ELSE IF ~saved
                THEN <<Respond(set, StatusInternalServerError, "Failed to save session"), sess>>
                ELSE <<Redirect(set, "/home"),
                       [k \in DOMAIN sess \cup {"authenticated", "user", "cluster"} |->
                          CASE k = "authenticated" -> TRUE
                            [] k = "user" -> SelectedUser(c)
                            [] k = "cluster" -> SelectedCluster(c)
                            [] OTHER -> sess[k]]>>
        rbacHome(clientErr, b) ==
            IF ~marked THEN Redirect(home, "/")
            ELSE IF "user" \notin DOMAIN sess
            THEN Respond(home, StatusInternalServerError, "panic")
            ELSE IF clientErr # "none"
            THEN Respond([home EXCEPT !.selectedUser = sess["user"]],
                         StatusInternalServerError,
                         "Failed to create Kubernetes " \o clientErr)
            ELSE [home EXCEPT !.selectedUser = sess["user"], !.pc = "listCRB",
                              !.lists = 1, !.silent = b]
    IN  {<<index, sess>>}
        \cup (IF program = "mtls"
              THEN mtlsSelect \cup {<<mtlsHome, sess>>}
              ELSE {rbacSelect(c, saved) : c \in forms, saved \in BOOLEAN}
                   \cup {<<rbacHome(e, b), sess>> : e \in ClientErrors, b \in BOOLEAN})

\* The return of the network call that request r waits in; answers is the set
\* of binding lists the cluster may answer with.
AloneReturn(r, sess, answers) ==
    IF r.silent THEN {}
    ELSE IF r.pc = "probe"
    THEN {<<Respond([r EXCEPT !.probe = p], StatusUnauthorized, "Authentication failed"),
            sess>> : p \in {"error", ToString(StatusForbidden),
                            ToString(StatusInternalServerError)}}
         \cup {<<Redirect([r EXCEPT !.probe = ToString(StatusOK), !.sets = 1], "/home"),
                 [k \in DOMAIN sess \cup {"authenticated"} |->
                    IF k = "authenticated" THEN TRUE ELSE sess[k]]>>}
    ELSE IF r.pc = "listCRB"
    THEN {<<Respond([r EXCEPT !.listFailed = "ClusterRoleBindings"],
                    StatusInternalServerError, "Failed to list ClusterRoleBindings"), sess>>}
         \cup {<<IF SomeBindingGrants(l, r.selectedUser, Getenv(accessRole))
                 THEN [r EXCEPT !.crbs = l, !.checked = TRUE, !.userAuthorized = TRUE,
                                !.pc = "listRB", !.lists = 2, !.silent = b]
                 ELSE Respond([r EXCEPT !.crbs = l, !.checked = TRUE],
                              StatusForbidden, "Access denied"),
                 sess>> : l \in answers, b \in BOOLEAN}
    ELSE {<<Respond([r EXCEPT !.listFailed = "RoleBindings"],
                    StatusInternalServerError, "Failed to list RoleBindings"), sess>>,
          <<Respond(r, StatusOK, "home.html with the binding lists"), sess>>}

Alone(r, sess, forms, answers) ==
    IF r.pc = "done" THEN AloneArrival(sess, forms) ELSE AloneReturn(r, sess, answers)

\* The step changes the request or the cookie of session s.
Moved(s) == req'[s] # req[s] \/ session'[s] # session[s]

\* C16: once main() serves, no step changes the loaded configuration; every
\* step of a handler changes the request and the cookie of one session only,
\* and changes them as that session's flow run alone would on the same form
\* value and the same answer of the cluster, whatever the other sessions'
\* requests and cookies are.
C16_FlowsDoNotInterfere ==
    [][/\ phase = "serving" =>
            /\ kubeConfig' = kubeConfig
            /\ kubeConfigBytes' = kubeConfigBytes
            /\ accessRole' = accessRole
          /\ \A s \in Sessions :
                Moved(s) =>
                    /\ \A t \in Sessions \ {s} : ~Moved(t)
                    /\ <<req'[s], session'[s]>> \in
                          Alone(req[s], session[s],
                                FormValues \cap {req'[s].selectedContext},
                                RemoteBindingLists \cap {req'[s].crbs})]_vars

\* C16 witness: a GET /home of one session has its check evaluated for its
\* own user while the other session, which stores another user, has a request
\* in flight.
C16_Witness ==
    \E s, t \in Sessions :
        /\ s # t
        /\ Checked(s)
        /\ req[s].selectedUser = session[s]["user"]
        /\ Has(session[t], "user")
        /\ session[t]["user"] # session[s]["user"]
        /\ req[t].pc # "done"

\* C17: the subject name that the check of GET /home has used is the user
\* reference of the context named in the latest successful POST
\* /select-context of the session, it is the name the session stores, and a
\* session has no key but the authenticated flag, that user name and the
\* cluster name: no key holds certificate or key material.
C17_SubjectIsTheSelectedContextsUser ==
    \A s \in Sessions :
        /\ Checked(s) =>
              /\ selected[s] # Nil
              /\ req[s].selectedUser = session[s]["user"]
              /\ \E i \in Named(kubeConfig.contexts, selected[s]) :
                    req[s].selectedUser = kubeConfig.contexts[i].user
        /\ DOMAIN session[s] \subseteq {"authenticated", "user", "cluster"}

====
